---- MODULE Spec2Model ----
(***************************************************************************)
(* EC2 instance metadata retrieval (pkg/nodebootstrap/utils/metadata.go). *)
(*                                                                        *)
(* GetEC2InstanceMetadata performs three HTTP exchanges with the IMDS     *)
(* endpoint: PUT /latest/api/token, GET /latest/meta-data/instance-id and *)
(* GET /latest/meta-data/instance-life-cycle.  The model runs several     *)
(* invocations concurrently; every exchange is split into the request     *)
(* being issued, client.Do returning, and the helper returning to its     *)
(* caller (status check, io.ReadAll, deferred resp.Body.Close()).  The    *)
(* endpoint's behaviour for one request is an "outcome" chosen            *)
(* nondeterministically when client.Do returns.                           *)
(*                                                                        *)
(* http.NewRequest is called with a valid method and a URL that parses,   *)
(* so its error branches (lines 46-48, 76-78, 126-128, 167-169) cannot be *)
(* taken and are not modelled (the test variant is called with the URL of *)
(* an httptest server).                                                   *)
(***************************************************************************)
EXTENDS Integers, Sequences, FiniteSets, TLC

VARIABLES
    variant,    \* per invocation: "prod" (GetEC2InstanceMetadata) or "test" (testGetEC2InstanceMetadata)
    pc,         \* per invocation: position in the function
    metadata,   \* per invocation: the local map `metadata`
    token,      \* per invocation: the local string `token`
    cur,        \* per invocation: the response client.Do returned and the helper is working on
    open,       \* per invocation: the response bodies obtained and not yet closed
    reqs,       \* per invocation: the requests issued so far, in order
    resps,      \* per invocation: the endpoint outcomes of those requests, in order
    ret         \* per invocation: the returned (map, error) pair once pc = "done"

vars == <<variant, pc, metadata, token, cur, open, reqs, resps, ret>>

---------------------------------------------------------------------------
(* Bounds of the model *)

\* number of concurrent invocations of GetEC2InstanceMetadata
NumProcs == 2

\* the response bodies the endpoint may serve, for any of the three paths
Bodies == {"i-1234567890abcdef0", "spot"}
\* the body of the responses whose body is never read to the end
AnyBody == "i-1234567890abcdef0"

\* status codes served by the endpoint: 200, a 2xx that is not 200, an error
Statuses == {200, 204, 404}

---------------------------------------------------------------------------
(* Program constants *)

StatusOK == 200
TimeoutSeconds == 5
NoTimeout == 0

IMDSBase == "http://169.254.169.254"
TokenPath == "/latest/api/token"
MetaDataPrefix == "/latest/meta-data/"
TTLHeader == "X-aws-ec2-metadata-token-ttl-seconds"
TokenHeader == "X-aws-ec2-metadata-token"
DefaultLifecycle == "on-demand"

\* a Go error is its chain of messages, outermost first (what errors.Unwrap
\* walks, and Error() joins with ": "); <<>> is the nil error
NoErr == <<>>
\* a Go map[string]string is a function from its keys
EmptyMap == [k \in {} |-> ""]

---------------------------------------------------------------------------
(* The endpoint: what one request meets *)

NetErr ==
    [neterr |-> TRUE, status |-> 0, body |-> "", truncated |-> FALSE,
     hdrDelay |-> 0, bodyDelay |-> 0]

Resp(s, b, trunc, hd, bd) ==
    [neterr |-> FALSE, status |-> s, body |-> b, truncated |-> trunc,
     hdrDelay |-> hd, bodyDelay |-> bd]

\* hdrDelay: seconds until the response headers arrive; bodyDelay: further
\* seconds until the body is complete.  1 second is within the production
\* client's timeout, 6 seconds are beyond it.
Outcomes ==
    {NetErr}
    \cup {Resp(s, AnyBody, FALSE, 1, 0) : s \in Statuses \ {200}}
    \cup {Resp(200, b, FALSE, 1, 0) : b \in Bodies}
    \cup {Resp(200, AnyBody, TRUE, 1, 0)}
    \cup {Resp(s, AnyBody, FALSE, 6, 0) : s \in {200, 404}}
    \cup {Resp(200, AnyBody, FALSE, 1, 6)}

\* the exchange completes (headers and whole body) within t seconds
WithinTimeout(o, t) == o.neterr \/ o.hdrDelay + o.bodyDelay <= t

---------------------------------------------------------------------------
(* net/http as the code uses it *)

\* http.NewRequest followed by req.Header.Set(hname, hvalue): the request as
\* the code hands it to client.Do
NewRequest(method, base, path, hname, hvalue) ==
    [method |-> method, base |-> base, path |-> path,
     hname |-> hname, hvalue |-> hvalue]

OpName(method) == IF method = "PUT" THEN "Put" ELSE "Get"

\* the *url.Error client.Do returns, wrapping the transport's error
UrlError(req, cause) ==
    <<OpName(req.method) \o " \"" \o req.base \o req.path \o "\"", cause>>

\* client.Do(req): the error it returns, NoErr when a response is obtained.
\* A Timeout of zero means no timeout.
ClientDo(client, req, o) ==
    IF o.neterr
    THEN UrlError(req, "dial tcp: connect: connection refused")
    ELSE IF client.Timeout > 0 /\ o.hdrDelay > client.Timeout
    THEN UrlError(req, "context deadline exceeded (Client.Timeout exceeded while awaiting headers)")
    ELSE NoErr

\* io.ReadAll(resp.Body): the client's Timeout also bounds reading the body
ReadAll(client, o) ==
    IF o.truncated
    THEN [data |-> "", err |-> <<"unexpected EOF">>]
    ELSE IF client.Timeout > 0 /\ o.hdrDelay + o.bodyDelay > client.Timeout
    THEN [data |-> "", err |-> <<"context deadline exceeded (Client.Timeout or context cancellation while reading body)">>]
    ELSE [data |-> o.body, err |-> NoErr]

\* fmt.Errorf(prefix + ": %w", err)
Wrap(prefix, err) == <<prefix>> \o err

---------------------------------------------------------------------------
(* The helpers of the production code, as functions of the endpoint outcome *)

\* &http.Client{Timeout: 5 * time.Second}
ProdClient == [Timeout |-> TimeoutSeconds]

TokenRequest(base) == NewRequest("PUT", base, TokenPath, TTLHeader, "600")

\* the metadata request with the token request's header copied over
MetadataRequest_ttlHeader(base, tok, path) ==
    NewRequest("GET", base, MetaDataPrefix \o path, TTLHeader, "600")

MetadataRequest(base, tok, path) ==
    NewRequest("GET", base, MetaDataPrefix \o path, TokenHeader, tok)

\* getIMDSToken with the status check `resp.StatusCode >= 300`
getIMDSToken_accept2xx(o) ==
    LET client == ProdClient
        doErr  == ClientDo(client, TokenRequest(IMDSBase), o)
    IN  IF doErr # NoErr
        THEN [val |-> "", err |-> doErr]
        ELSE IF o.status >= 300
        THEN [val |-> "",
              err |-> <<"failed to get token, status code: " \o ToString(o.status)>>]
        ELSE LET r == ReadAll(client, o)
             IN  IF r.err # NoErr
                 THEN [val |-> "", err |-> r.err]
                 ELSE [val |-> r.data, err |-> NoErr]

\* what getIMDSToken returns when its request meets outcome o
getIMDSToken(o) ==
    LET client == ProdClient
        doErr  == ClientDo(client, TokenRequest(IMDSBase), o)
    IN  IF doErr # NoErr
        THEN [val |-> "", err |-> doErr]
        ELSE IF o.status # StatusOK
        THEN [val |-> "",
              err |-> <<"failed to get token, status code: " \o ToString(o.status)>>]
        ELSE LET r == ReadAll(client, o)
             IN  IF r.err # NoErr
                 THEN [val |-> "", err |-> r.err]
                 ELSE [val |-> r.data, err |-> NoErr]

\* what getMetadata(tok, path) returns when its request meets outcome o
getMetadata(tok, path, o) ==
    LET client == ProdClient
        doErr  == ClientDo(client, MetadataRequest(IMDSBase, tok, path), o)
    IN  IF doErr # NoErr
        THEN [val |-> "", err |-> doErr]
        ELSE IF o.status # StatusOK
        THEN [val |-> "",
              err |-> <<"failed to get metadata for " \o path
                        \o ", status code: " \o ToString(o.status)>>]
        ELSE LET r == ReadAll(client, o)
             IN  IF r.err # NoErr
                 THEN [val |-> "", err |-> r.err]
                 ELSE [val |-> r.data, err |-> NoErr]

\* resp.Body.Close() called at the end of the success path instead of deferred
deferBodyClose_successOnly(opn, which, res) ==
    IF res.err = NoErr THEN opn \ {which} ELSE opn

\* defer resp.Body.Close(): the bodies still open once the helper that
\* obtained `which` has returned res
deferBodyClose(opn, which, res) == opn \ {which}

---------------------------------------------------------------------------
(* State *)

Procs == 1..NumProcs
Invocations == DOMAIN pc

Fields == {"instance-id", "instance-life-cycle"}

PcOf(path, step) ==
    IF path = "instance-id" THEN "id_" \o step ELSE "lc_" \o step

NoRet == [metadata |-> EmptyMap, isNil |-> TRUE, err |-> NoErr]

InitOf(procs, v) ==
    /\ variant = v
    /\ pc = [p \in procs |-> "idle"]
    /\ metadata = [p \in procs |-> EmptyMap]
    /\ token = [p \in procs |-> ""]
    /\ cur = [p \in procs |-> NetErr]
    /\ open = [p \in procs |-> {}]
    /\ reqs = [p \in procs |-> <<>>]
    /\ resps = [p \in procs |-> <<>>]
    /\ ret = [p \in procs |-> NoRet]

Init == InitOf(Procs, [p \in Procs |-> "prod"])

---------------------------------------------------------------------------
(* GetEC2InstanceMetadata: what the caller does with each helper's result *)

Return(p, m, isNil, e) ==
    /\ ret' = [ret EXCEPT ![p] = [metadata |-> m, isNil |-> isNil, err |-> e]]
    /\ pc' = [pc EXCEPT ![p] = "done"]

\* the caller retrying the token request when it failed
AfterToken_retry(p, res) ==
    IF res.err # NoErr
    THEN /\ pc' = [pc EXCEPT ![p] = "tok_call"]
         /\ UNCHANGED <<token, metadata, ret>>
    ELSE /\ token' = [token EXCEPT ![p] = res.val]
         /\ pc' = [pc EXCEPT ![p] = "id_call"]
         /\ UNCHANGED <<metadata, ret>>

\* token, err := getIMDSToken(); if err != nil { return nil, ... }
AfterToken(p, res) ==
    IF res.err # NoErr
    THEN /\ Return(p, EmptyMap, TRUE, Wrap("failed to get IMDS token", res.err))
         /\ UNCHANGED <<token, metadata>>
    ELSE /\ token' = [token EXCEPT ![p] = res.val]
         /\ pc' = [pc EXCEPT ![p] = "id_call"]
         /\ UNCHANGED <<metadata, ret>>

\* the instance ID treated like the lifecycle: defaulted when its read fails
AfterInstanceID_defaulted(p, res) ==
    LET instanceID == IF res.err # NoErr THEN "unknown" ELSE res.val
    IN  /\ metadata' = [metadata EXCEPT
                          ![p] = ("alpha.eksctl.io/instance-id" :> instanceID) @@ @]
        /\ pc' = [pc EXCEPT ![p] = "lc_call"]
        /\ UNCHANGED <<token, ret>>

\* the instance ID read but never stored in the map
AfterInstanceID_notStored(p, res) ==
    IF res.err # NoErr
    THEN /\ Return(p, EmptyMap, TRUE, Wrap("failed to get instance ID", res.err))
         /\ UNCHANGED <<token, metadata>>
    ELSE /\ pc' = [pc EXCEPT ![p] = "lc_call"]
         /\ UNCHANGED <<token, metadata, ret>>

\* instanceID, err := getMetadata(token, "instance-id"); fatal on error
AfterInstanceID(p, res) ==
    IF res.err # NoErr
    THEN /\ Return(p, EmptyMap, TRUE, Wrap("failed to get instance ID", res.err))
         /\ UNCHANGED <<token, metadata>>
    ELSE /\ metadata' = [metadata EXCEPT
                           ![p] = ("alpha.eksctl.io/instance-id" :> res.val) @@ @]
         /\ pc' = [pc EXCEPT ![p] = "lc_call"]
         /\ UNCHANGED <<token, ret>>

\* a failed lifecycle read treated as fatal
AfterLifecycle_fatal(p, res) ==
    IF res.err # NoErr
    THEN /\ Return(p, EmptyMap, TRUE, Wrap("failed to get instance lifecycle", res.err))
         /\ UNCHANGED <<token, metadata>>
    ELSE LET m == ("node-lifecycle" :> res.val) @@ metadata[p]
         IN  /\ metadata' = [metadata EXCEPT ![p] = m]
             /\ Return(p, m, FALSE, NoErr)
             /\ UNCHANGED token

\* the default substituted whether or not the lifecycle read failed
AfterLifecycle_alwaysDefault(p, res) ==
    LET m == ("node-lifecycle" :> DefaultLifecycle) @@ metadata[p]
    IN  /\ metadata' = [metadata EXCEPT ![p] = m]
        /\ Return(p, m, FALSE, NoErr)
        /\ UNCHANGED token

\* instanceLifecycle, err := getMetadata(token, "instance-life-cycle");
\* on error the value defaults to "on-demand"; return metadata, nil
AfterLifecycle(p, res) ==
    LET instanceLifecycle == IF res.err # NoErr THEN DefaultLifecycle ELSE res.val
        m == ("node-lifecycle" :> instanceLifecycle) @@ metadata[p]
    IN  /\ metadata' = [metadata EXCEPT ![p] = m]
        /\ Return(p, m, FALSE, NoErr)
        /\ UNCHANGED token

AfterMetadata(p, path, res) ==
    IF path = "instance-id" THEN AfterInstanceID(p, res) ELSE AfterLifecycle(p, res)

---------------------------------------------------------------------------
(* Actions of the production variant *)

\* entry: metadata := make(map[string]string)
GetEC2InstanceMetadata(p) ==
    /\ variant[p] = "prod"
    /\ pc[p] = "idle"
    /\ metadata' = [metadata EXCEPT ![p] = EmptyMap]
    /\ pc' = [pc EXCEPT ![p] = "tok_call"]
    /\ UNCHANGED <<variant, token, cur, open, reqs, resps, ret>>

\* getIMDSToken up to client.Do(req) sending the request
getIMDSToken_Request(p) ==
    /\ variant[p] = "prod"
    /\ pc[p] = "tok_call"
    /\ reqs' = [reqs EXCEPT ![p] = Append(@, TokenRequest(IMDSBase))]
    /\ pc' = [pc EXCEPT ![p] = "tok_wait"]
    /\ UNCHANGED <<variant, metadata, token, cur, open, resps, ret>>

\* client.Do(req) returns: an error, or a response whose body is open
getIMDSToken_Response(p) ==
    /\ variant[p] = "prod"
    /\ pc[p] = "tok_wait"
    /\ \E o \in Outcomes :
          /\ resps' = [resps EXCEPT ![p] = Append(@, o)]
          /\ IF ClientDo(ProdClient, TokenRequest(IMDSBase), o) # NoErr
             THEN /\ AfterToken(p, getIMDSToken(o))
                  /\ UNCHANGED <<cur, open>>
             ELSE /\ cur' = [cur EXCEPT ![p] = o]
                  /\ open' = [open EXCEPT ![p] = @ \cup {"token"}]
                  /\ pc' = [pc EXCEPT ![p] = "tok_body"]
                  /\ UNCHANGED <<metadata, token, ret>>
    /\ UNCHANGED <<variant, reqs>>

\* status check, io.ReadAll, deferred Close, return to GetEC2InstanceMetadata
getIMDSToken_Return(p) ==
    /\ variant[p] = "prod"
    /\ pc[p] = "tok_body"
    /\ LET res == getIMDSToken(cur[p])
       IN  /\ open' = [open EXCEPT ![p] = deferBodyClose(@, "token", res)]
           /\ AfterToken(p, res)
    /\ cur' = [cur EXCEPT ![p] = NetErr]
    /\ UNCHANGED <<variant, reqs, resps>>

\* getMetadata reading the token from a variable shared by all invocations
getMetadata_Request_sharedToken(p, path) ==
    /\ variant[p] = "prod"
    /\ pc[p] = PcOf(path, "call")
    /\ LET first == CHOOSE q \in Invocations : \A r \in Invocations : q <= r
       IN  reqs' = [reqs EXCEPT
                      ![p] = Append(@, MetadataRequest(IMDSBase, token[first], path))]
    /\ pc' = [pc EXCEPT ![p] = PcOf(path, "wait")]
    /\ UNCHANGED <<variant, metadata, token, cur, open, resps, ret>>

\* getMetadata(token, path) up to client.Do(req) sending the request
getMetadata_Request(p, path) ==
    /\ variant[p] = "prod"
    /\ pc[p] = PcOf(path, "call")
    /\ reqs' = [reqs EXCEPT ![p] = Append(@, MetadataRequest(IMDSBase, token[p], path))]
    /\ pc' = [pc EXCEPT ![p] = PcOf(path, "wait")]
    /\ UNCHANGED <<variant, metadata, token, cur, open, resps, ret>>

getMetadata_Response(p, path) ==
    /\ variant[p] = "prod"
    /\ pc[p] = PcOf(path, "wait")
    /\ \E o \in Outcomes :
          /\ resps' = [resps EXCEPT ![p] = Append(@, o)]
          /\ IF ClientDo(ProdClient, MetadataRequest(IMDSBase, token[p], path), o) # NoErr
             THEN /\ AfterMetadata(p, path, getMetadata(token[p], path, o))
                  /\ UNCHANGED <<cur, open>>
             ELSE /\ cur' = [cur EXCEPT ![p] = o]
                  /\ open' = [open EXCEPT ![p] = @ \cup {path}]
                  /\ pc' = [pc EXCEPT ![p] = PcOf(path, "body")]
                  /\ UNCHANGED <<metadata, token, ret>>
    /\ UNCHANGED <<variant, reqs>>

getMetadata_Return(p, path) ==
    /\ variant[p] = "prod"
    /\ pc[p] = PcOf(path, "body")
    /\ LET res == getMetadata(token[p], path, cur[p])
       IN  /\ open' = [open EXCEPT ![p] = deferBodyClose(@, path, res)]
           /\ AfterMetadata(p, path, res)
    /\ cur' = [cur EXCEPT ![p] = NetErr]
    /\ UNCHANGED <<variant, reqs, resps>>

ProdStep(p) ==
    \/ GetEC2InstanceMetadata(p)
    \/ getIMDSToken_Request(p)
    \/ getIMDSToken_Response(p)
    \/ getIMDSToken_Return(p)
    \/ \E path \in Fields : getMetadata_Request(p, path)
    \/ \E path \in Fields : getMetadata_Response(p, path)
    \/ \E path \in Fields : getMetadata_Return(p, path)

Next == \E p \in Invocations : ProdStep(p)

Spec == Init /\ [][Next]_vars

---------------------------------------------------------------------------
(* The test variant: testGetEC2InstanceMetadata(serverURL) *)

\* client := &http.Client{}, shared by the three exchanges
TestClient == [Timeout |-> NoTimeout]

\* the httptest server's URL
ServerURL == "http://127.0.0.1:8080"

\* the test variant's token acquisition with the status check `>= 300`
testToken_accept2xx(o) ==
    LET doErr == ClientDo(TestClient, TokenRequest(ServerURL), o)
    IN  IF doErr # NoErr
        THEN [val |-> "", err |-> Wrap("failed to get token", doErr)]
        ELSE IF o.status >= 300
        THEN [val |-> "",
              err |-> <<"failed to get token, status code: " \o ToString(o.status)>>]
        ELSE LET r == ReadAll(TestClient, o)
             IN  IF r.err # NoErr
                 THEN [val |-> "", err |-> Wrap("failed to read token", r.err)]
                 ELSE [val |-> r.data, err |-> NoErr]

\* the inlined token acquisition: token or the error the function returns
testToken(o) ==
    LET doErr == ClientDo(TestClient, TokenRequest(ServerURL), o)
    IN  IF doErr # NoErr
        THEN [val |-> "", err |-> Wrap("failed to get token", doErr)]
        ELSE IF o.status # StatusOK
        THEN [val |-> "",
              err |-> <<"failed to get token, status code: " \o ToString(o.status)>>]
        ELSE LET r == ReadAll(TestClient, o)
             IN  IF r.err # NoErr
                 THEN [val |-> "", err |-> Wrap("failed to read token", r.err)]
                 ELSE [val |-> r.data, err |-> NoErr]

\* what getMetadataFromURL returns when its request meets outcome o
getMetadataFromURL(client, tok, serverURL, path, o) ==
    LET doErr == ClientDo(client, MetadataRequest(serverURL, tok, path), o)
    IN  IF doErr # NoErr
        THEN [val |-> "", err |-> doErr]
        ELSE IF o.status # StatusOK
        THEN [val |-> "",
              err |-> <<"failed to get metadata for " \o path
                        \o ", status code: " \o ToString(o.status)>>]
        ELSE LET r == ReadAll(client, o)
             IN  IF r.err # NoErr
                 THEN [val |-> "", err |-> r.err]
                 ELSE [val |-> r.data, err |-> NoErr]

TestAfterToken(p, res) ==
    IF res.err # NoErr
    THEN /\ Return(p, EmptyMap, TRUE, res.err)
         /\ UNCHANGED <<token, metadata>>
    ELSE /\ token' = [token EXCEPT ![p] = res.val]
         /\ pc' = [pc EXCEPT ![p] = "id_call"]
         /\ UNCHANGED <<metadata, ret>>

TestAfterInstanceID(p, res) ==
    IF res.err # NoErr
    THEN /\ Return(p, EmptyMap, TRUE, Wrap("failed to get instance ID", res.err))
         /\ UNCHANGED <<token, metadata>>
    ELSE /\ metadata' = [metadata EXCEPT ![p] = ("instance-id" :> res.val) @@ @]
         /\ pc' = [pc EXCEPT ![p] = "lc_call"]
         /\ UNCHANGED <<token, ret>>

TestAfterLifecycle(p, res) ==
    LET instanceLifecycle == IF res.err # NoErr THEN DefaultLifecycle ELSE res.val
        m == ("instance-lifecycle" :> instanceLifecycle) @@ metadata[p]
    IN  /\ metadata' = [metadata EXCEPT ![p] = m]
        /\ Return(p, m, FALSE, NoErr)
        /\ UNCHANGED token

TestAfterMetadata(p, path, res) ==
    IF path = "instance-id" THEN TestAfterInstanceID(p, res)
    ELSE TestAfterLifecycle(p, res)

\* the function-level `defer resp.Body.Close()` of the token response runs
\* when testGetEC2InstanceMetadata returns
TestDeferClose(opn, returned) == IF returned THEN opn \ {"token"} ELSE opn

testGetEC2InstanceMetadata(p) ==
    /\ variant[p] = "test"
    /\ pc[p] = "idle"
    /\ metadata' = [metadata EXCEPT ![p] = EmptyMap]
    /\ pc' = [pc EXCEPT ![p] = "tok_call"]
    /\ UNCHANGED <<variant, token, cur, open, reqs, resps, ret>>

testGetEC2InstanceMetadata_TokenRequest(p) ==
    /\ variant[p] = "test"
    /\ pc[p] = "tok_call"
    /\ reqs' = [reqs EXCEPT ![p] = Append(@, TokenRequest(ServerURL))]
    /\ pc' = [pc EXCEPT ![p] = "tok_wait"]
    /\ UNCHANGED <<variant, metadata, token, cur, open, resps, ret>>

testGetEC2InstanceMetadata_TokenResponse(p) ==
    /\ variant[p] = "test"
    /\ pc[p] = "tok_wait"
    /\ \E o \in Outcomes :
          /\ resps' = [resps EXCEPT ![p] = Append(@, o)]
          /\ IF ClientDo(TestClient, TokenRequest(ServerURL), o) # NoErr
             THEN /\ TestAfterToken(p, testToken(o))
                  /\ UNCHANGED <<cur, open>>
             ELSE /\ cur' = [cur EXCEPT ![p] = o]
                  /\ open' = [open EXCEPT ![p] = @ \cup {"token"}]
                  /\ pc' = [pc EXCEPT ![p] = "tok_body"]
                  /\ UNCHANGED <<metadata, token, ret>>
    /\ UNCHANGED <<variant, reqs>>

\* status check and io.ReadAll of the token response
testGetEC2InstanceMetadata_TokenRead(p) ==
    /\ variant[p] = "test"
    /\ pc[p] = "tok_body"
    /\ TestAfterToken(p, testToken(cur[p]))
    /\ open' = [open EXCEPT ![p] = TestDeferClose(@, pc'[p] = "done")]
    /\ cur' = [cur EXCEPT ![p] = NetErr]
    /\ UNCHANGED <<variant, reqs, resps>>

getMetadataFromURL_Request(p, path) ==
    /\ variant[p] = "test"
    /\ pc[p] = PcOf(path, "call")
    /\ reqs' = [reqs EXCEPT ![p] = Append(@, MetadataRequest(ServerURL, token[p], path))]
    /\ pc' = [pc EXCEPT ![p] = PcOf(path, "wait")]
    /\ UNCHANGED <<variant, metadata, token, cur, open, resps, ret>>

getMetadataFromURL_Response(p, path) ==
    /\ variant[p] = "test"
    /\ pc[p] = PcOf(path, "wait")
    /\ \E o \in Outcomes :
          /\ resps' = [resps EXCEPT ![p] = Append(@, o)]
          /\ IF ClientDo(TestClient, MetadataRequest(ServerURL, token[p], path), o) # NoErr
             THEN /\ TestAfterMetadata(p, path,
                        getMetadataFromURL(TestClient, token[p], ServerURL, path, o))
                  /\ open' = [open EXCEPT ![p] = TestDeferClose(@, pc'[p] = "done")]
                  /\ UNCHANGED cur
             ELSE /\ cur' = [cur EXCEPT ![p] = o]
                  /\ open' = [open EXCEPT ![p] = @ \cup {path}]
                  /\ pc' = [pc EXCEPT ![p] = PcOf(path, "body")]
                  /\ UNCHANGED <<metadata, token, ret>>
    /\ UNCHANGED <<variant, reqs>>

getMetadataFromURL_Return(p, path) ==
    /\ variant[p] = "test"
    /\ pc[p] = PcOf(path, "body")
    /\ LET res == getMetadataFromURL(TestClient, token[p], ServerURL, path, cur[p])
       IN  /\ TestAfterMetadata(p, path, res)
           /\ open' = [open EXCEPT ![p] =
                         TestDeferClose(deferBodyClose(@, path, res), pc'[p] = "done")]
    /\ cur' = [cur EXCEPT ![p] = NetErr]
    /\ UNCHANGED <<variant, reqs, resps>>

TestStep(p) ==
    \/ testGetEC2InstanceMetadata(p)
    \/ testGetEC2InstanceMetadata_TokenRequest(p)
    \/ testGetEC2InstanceMetadata_TokenResponse(p)
    \/ testGetEC2InstanceMetadata_TokenRead(p)
    \/ \E path \in Fields : getMetadataFromURL_Request(p, path)
    \/ \E path \in Fields : getMetadataFromURL_Response(p, path)
    \/ \E path \in Fields : getMetadataFromURL_Return(p, path)

\* one production and one test invocation, side by side
Variants == {"prod", "test"}
InitEq == InitOf(Variants, [v \in Variants |-> v])
NextEq == \E p \in Invocations : ProdStep(p) \/ TestStep(p)
SpecEq == InitEq /\ [][NextEq]_vars

---------------------------------------------------------------------------
(* Vocabulary of the properties *)

IDKey == "alpha.eksctl.io/instance-id"
LifecycleKey == "node-lifecycle"

Prod == {p \in Invocations : variant[p] = "prod"}

Done(p) == pc[p] = "done"
Failed(p) == Done(p) /\ ret[p].err # NoErr /\ ret[p].isNil
Succeeded(p) == Done(p) /\ ret[p].err = NoErr /\ ~ret[p].isNil

\* the production client's view of the endpoint's answer to one request
\* client.Do returned a response (no network error, headers in time)
GotResponse(o) == ~o.neterr /\ o.hdrDelay <= TimeoutSeconds
\* ... and its status is, or is not, 200
Returned200(o) == GotResponse(o) /\ o.status = 200
ReturnedNon200(o) == GotResponse(o) /\ o.status # 200
\* ... and its body was read to the end in time
BodyRead(o) == Returned200(o) /\ ~o.truncated /\ WithinTimeout(o, TimeoutSeconds)
\* the endpoint answered with a status other than 200, in time or not
EndpointNon200(o) == ~o.neterr /\ o.status # 200
\* the exchange failed in some way
ExchangeFailed(o) == ~BodyRead(o)

IsMetadataRead(r) == r.method = "GET"

\* the i-th outcome met by invocation p, when its i-th request was answered
Answered(p, i) == Len(resps[p]) >= i

---------------------------------------------------------------------------
(* C1: if the token request returns a non-200 status, GetEC2InstanceMetadata
   fails with a non-nil error that names the token stage, and no metadata-read
   request (instance-id or instance-life-cycle) is ever issued by that
   invocation. *)
C1_TokenNon200Fails ==
    \A p \in Prod :
        (Answered(p, 1) /\ EndpointNon200(resps[p][1])) =>
            /\ \A i \in 1..Len(reqs[p]) : ~IsMetadataRead(reqs[p][i])
            /\ pc[p] \in {"tok_body", "done"}
            /\ Done(p) => (Failed(p) /\ Head(ret[p].err) = "failed to get IMDS token")

C1_Witness ==
    \E p \in Prod :
        /\ Answered(p, 1) /\ ReturnedNon200(resps[p][1])
        /\ resps[p][1].status = 204
        /\ Failed(p)

(* C2: if the instance-id read returns a non-200 status, the operation fails
   with a non-nil error that names the instance ID stage, although the token
   request succeeded; no instance ID value is put in the map in its place and
   the lifecycle is not read. *)
C2_InstanceIDNon200Fails ==
    \A p \in Prod :
        (Answered(p, 2) /\ EndpointNon200(resps[p][2])) =>
            /\ BodyRead(resps[p][1])
            /\ Len(reqs[p]) = 2
            /\ IDKey \notin DOMAIN metadata[p]
            /\ pc[p] \in {"id_body", "done"}
            /\ Done(p) => (Failed(p) /\ Head(ret[p].err) = "failed to get instance ID")

C2_Witness ==
    \E p \in Prod :
        /\ Answered(p, 2) /\ ReturnedNon200(resps[p][2])
        /\ BodyRead(resps[p][1])
        /\ Failed(p)

(* C3: if the token request and the instance-id read succeed and the
   instance-life-cycle read fails in any way (network error, timeout, non-200
   status, failed body read), the operation succeeds with a nil error and the
   lifecycle value of the result is "on-demand". *)
C3_LifecycleFailureDefaults ==
    \A p \in Prod :
        (Done(p) /\ Answered(p, 3) /\ ExchangeFailed(resps[p][3])) =>
            /\ Succeeded(p)
            /\ LifecycleKey \in DOMAIN ret[p].metadata
            /\ ret[p].metadata[LifecycleKey] = "on-demand"

C3_Witness ==
    \E p, q \in Prod :
        /\ Done(p) /\ Answered(p, 3) /\ resps[p][3].neterr
        /\ Done(q) /\ Answered(q, 3) /\ ReturnedNon200(resps[q][3])
        /\ ret[p].metadata[LifecycleKey] = "on-demand"
        /\ ret[q].metadata[LifecycleKey] = "on-demand"

(* C4 as stated: whenever the token request and both metadata reads return
   HTTP 200, the result maps the instance ID key to the body of the
   instance-id response and the lifecycle key to the body of the
   instance-life-cycle response, and the error is nil. *)
C4_Original ==
    \A p \in Prod :
        (Done(p) /\ Answered(p, 3)
            /\ \A i \in 1..3 : Returned200(resps[p][i])) =>
            /\ Succeeded(p)
            /\ ret[p].metadata = (IDKey :> resps[p][2].body)
                                    @@ (LifecycleKey :> resps[p][3].body)

(* C4 amended: whenever the token request and both metadata reads return
   HTTP 200 and each body is read to the end without error, the result maps
   the instance ID key to the body of the instance-id response and the
   lifecycle key to the body of the instance-life-cycle response, and the
   error is nil. *)
C4_AllOKResult ==
    \A p \in Prod :
        (Done(p) /\ Answered(p, 3)
            /\ \A i \in 1..3 : BodyRead(resps[p][i])) =>
            /\ Succeeded(p)
            /\ ret[p].metadata = (IDKey :> resps[p][2].body)
                                    @@ (LifecycleKey :> resps[p][3].body)

C4_Witness ==
    \E p \in Prod :
        /\ Done(p) /\ Answered(p, 3)
        /\ \A i \in 1..3 : BodyRead(resps[p][i])
        /\ resps[p][2].body # resps[p][3].body
        /\ resps[p][3].body # "on-demand"
        /\ Succeeded(p)

(* C5: every metadata-read request of an invocation carries, in the
   X-aws-ec2-metadata-token header, exactly the body of that invocation's
   token response; both reads of one invocation carry the same token. *)
C5_TokenHeader ==
    \A p \in Prod :
        /\ \A i \in 1..Len(reqs[p]) :
              IsMetadataRead(reqs[p][i]) =>
                  /\ reqs[p][i].hname = "X-aws-ec2-metadata-token"
                  /\ reqs[p][i].hvalue = resps[p][1].body
        /\ \A i, j \in 1..Len(reqs[p]) :
              (IsMetadataRead(reqs[p][i]) /\ IsMetadataRead(reqs[p][j])) =>
                  reqs[p][i].hvalue = reqs[p][j].hvalue

C5_Witness ==
    \E p \in Prod :
        /\ Len(reqs[p]) = 3
        /\ resps[p][1].body = "spot"
        /\ reqs[p][2].hvalue = "spot" /\ reqs[p][3].hvalue = "spot"

(* C6: whenever GetEC2InstanceMetadata returns without error, the result has
   exactly two entries, the instance ID and the lifecycle; a returned result
   that lacks the instance ID comes with a non-nil error. *)
C6_TwoEntries ==
    \A p \in Prod :
        /\ (Done(p) /\ ret[p].err = NoErr) =>
              /\ ~ret[p].isNil
              /\ DOMAIN ret[p].metadata = {IDKey, LifecycleKey}
              /\ Cardinality(DOMAIN ret[p].metadata) = 2
        /\ (Done(p) /\ IDKey \notin DOMAIN ret[p].metadata) => ret[p].err # NoErr

C6_Witness ==
    \E p, q \in Prod :
        /\ Succeeded(p) /\ Cardinality(DOMAIN ret[p].metadata) = 2
        /\ Failed(q) /\ DOMAIN ret[q].metadata = {}

\* the whole state of one invocation
Local(p) ==
    <<pc[p], metadata[p], token[p], cur[p], open[p], reqs[p], resps[p], ret[p]>>

OneInvocationPerStep ==
    \A p, q \in Invocations :
        p # q => (Local(p)' = Local(p) \/ Local(q)' = Local(q))

OwnToken ==
    \A p \in Prod : \A i \in 1..Len(reqs[p]) :
        IsMetadataRead(reqs[p][i]) =>
            /\ BodyRead(resps[p][1])
            /\ reqs[p][i].hvalue = resps[p][1].body
            /\ reqs[p][i].hvalue = token[p]

DeterminedByOwnResponses ==
    \A p, q \in Prod :
        (pc[p] = pc[q] /\ resps[p] = resps[q]) => Local(p) = Local(q)

(* C7: concurrent invocations are independent under every interleaving: a
   step changes the state of one invocation only, every metadata read of an
   invocation carries the token that invocation acquired itself, and the
   state of an invocation is determined by its position and the responses to
   its own requests. *)
C7_Isolation ==
    /\ [][OneInvocationPerStep]_vars
    /\ [](OwnToken /\ DeterminedByOwnResponses)

C7_Witness ==
    \E p, q \in Prod :
        /\ pc[p] = "lc_wait" /\ pc[q] = "id_wait"
        /\ token[p] # token[q]
        /\ reqs[p][3].hvalue = token[p]
        /\ reqs[q][2].hvalue = token[q]

ExpectedPaths ==
    <<"/latest/api/token", "/latest/meta-data/instance-id",
      "/latest/meta-data/instance-life-cycle">>

(* C8: an invocation issues its requests one at a time and in a fixed order,
   each at most once: the token request, the instance-id read only after the
   token request succeeded, the instance-life-cycle read only after the
   instance-id read succeeded; never more than three requests. *)
C8_OrderedAtMostOnce ==
    \A p \in Prod :
        /\ Len(reqs[p]) <= 3
        /\ \A i \in 1..Len(reqs[p]) : reqs[p][i].path = ExpectedPaths[i]
        /\ Len(resps[p]) <= Len(reqs[p])
        /\ Len(reqs[p]) <= Len(resps[p]) + 1
        /\ \A i \in 2..Len(reqs[p]) : BodyRead(resps[p][i - 1])
        /\ Done(p) => Len(resps[p]) = Len(reqs[p])

C8_Witness ==
    \E p, q \in Prod :
        /\ Done(p) /\ Len(reqs[p]) = 3
        /\ Failed(q) /\ Len(reqs[q]) = 1 /\ ExchangeFailed(resps[q][1])

\* the body a helper of invocation p holds between client.Do and its return
BodyInHand(p) ==
    IF pc[p] = "tok_body" THEN {"token"}
    ELSE IF pc[p] = "id_body" THEN {"instance-id"}
    ELSE IF pc[p] = "lc_body" THEN {"instance-life-cycle"}
    ELSE {}

(* C9: a response body is open only while the helper that obtained it is
   still running: it is closed by the time the helper returns, whether with a
   value, after a non-200 status or after a failed body read, and none is
   open once GetEC2InstanceMetadata has returned. *)
C9_BodiesClosed == \A p \in Prod : open[p] \subseteq BodyInHand(p)

C9_Witness ==
    \E p, q \in Prod :
        /\ Failed(p) /\ Len(resps[p]) = 2 /\ ReturnedNon200(resps[p][2])
        /\ open[p] = {}
        /\ Failed(q) /\ Len(resps[q]) = 1 /\ Returned200(resps[q][1])
        /\ resps[q][1].truncated
        /\ open[q] = {}

---------------------------------------------------------------------------
(* The production and the test variant against the same endpoint (SpecEq) *)

ReqViews(p) ==
    [i \in 1..Len(reqs[p]) |->
        <<reqs[p][i].method, reqs[p][i].path, reqs[p][i].hname, reqs[p][i].hvalue>>]

IsPrefix(s, t) == Len(s) <= Len(t) /\ \A i \in 1..Len(s) : s[i] = t[i]

\* both invocations met the same endpoint behaviour, as far as each got
SameEndpoint(p, q) == IsPrefix(resps[p], resps[q]) \/ IsPrefix(resps[q], resps[p])

KeyRenaming ==
    (IDKey :> "instance-id") @@ (LifecycleKey :> "instance-lifecycle")

Rename(m) ==
    [k \in {KeyRenaming[j] : j \in DOMAIN m} |->
        m[CHOOSE j \in DOMAIN m : KeyRenaming[j] = k]]

Equivalent(p, q) ==
    /\ ReqViews(p) = ReqViews(q)
    /\ (ret[p].err = NoErr) <=> (ret[q].err = NoErr)
    /\ ret[p].isNil <=> ret[q].isNil
    /\ ret[p].err = NoErr => Rename(ret[p].metadata) = ret[q].metadata

AllInTime(p) ==
    \A i \in 1..Len(resps[p]) : WithinTimeout(resps[p][i], TimeoutSeconds)

(* C10 as stated: for every sequence of endpoint outcomes the test variant
   and the production function issue the same requests (method, path,
   headers), both succeed or both fail, and on success their results are
   equal up to the renaming of the two keys. *)
C10_Original ==
    (Done("prod") /\ Done("test") /\ SameEndpoint("prod", "test")) =>
        Equivalent("prod", "test")

(* C10 amended: for every sequence of endpoint outcomes in which each
   exchange completes within the production client's 5-second timeout, the
   test variant and the production function issue the same requests, both
   succeed or both fail, and on success their results are equal up to the
   renaming of the two keys. *)
C10_EquivalentInTime ==
    (Done("prod") /\ Done("test") /\ SameEndpoint("prod", "test")
        /\ AllInTime("prod") /\ AllInTime("test")) =>
        Equivalent("prod", "test")

C10_Witness ==
    /\ Done("prod") /\ Done("test")
    /\ resps["prod"] = resps["test"]
    /\ Len(resps["prod"]) = 3
    /\ AllInTime("prod")
    /\ ret["prod"].err = NoErr
    /\ ret["test"].metadata["instance-lifecycle"] = "on-demand"
    /\ ret["test"].metadata["instance-id"] = "spot"

====
